---------------------------- MODULE Spec2Model ----------------------------
(***************************************************************************)
(* Model of the python-sidecar gateway of ai-pm-ide: the two provider      *)
(* adapters (claude_client.py, openai_client.py), their pricing tables,   *)
(* the framework loader (framework_loader.py) and the FastAPI handlers    *)
(* of main.py (chat, chat/stream, generate-framework and its stream).     *)
(*                                                                         *)
(* Conventions.                                                            *)
(*  - A text is a sequence of atoms; an atom is either a whitespace atom   *)
(*    (" " or "\n") or a fragment without whitespace.  str.split() counts  *)
(*    the maximal runs of fragments.                                       *)
(*  - Money is counted in units of 1e-8 USD, so that every rate of the     *)
(*    tables (a price per million tokens divided by 1,000,000) is a whole  *)
(*    number of units per token: 1.25 USD per million tokens is 125.       *)
(*  - A canonical event (a Python dict) is a record; the SSE frame         *)
(*    "data: " + json.dumps(chunk) + "\n\n" is modelled by the dict it     *)
(*    encodes, json.dumps being injective on these dicts.                  *)
(***************************************************************************)
EXTENDS Integers, Sequences, FiniteSets, TLC

VARIABLES
    req,            \* the request being handled (NoRequest when idle)
    pc,             \* where the handler / adapter coroutine is suspended
    yielded,        \* events the adapter's chat_stream has yielded so far
    frames,         \* frames the gateway generator has yielded to the transport
    response,       \* the non-streaming endpoint's response (NoResponse if none)
    total_content,  \* OpenAIClient.chat_stream's accumulator
    nchunks,        \* native chunks received in this call
    providerCalls,  \* provider calls issued for this request
    providerResult, \* "none" | "ok" | "failed": how the provider call went
    call,           \* the arguments of the adapter call in flight (NoCall if none)
    cache,          \* FrameworkLoader._frameworks_cache
    connected,      \* whether the consumer of the stream is still reading
    native,         \* the provider's native stream: "none" | "open" | "closed"
    text_stream,    \* ClaudeClient: the increments stream.text_stream delivered
    final_message,  \* ClaudeClient: what stream.get_final_message() returned
    cost_args,      \* the arguments of a calculate_cost call
    cost_result,    \* what that call returned (NoCost before it ran)
    prompt_args,    \* the inputs of a prompt assembly
    prompt_result,  \* the prompts it built (NoPrompt before it ran)
    tasks,          \* two requests handled concurrently: the locals of each
    disk,           \* the framework definitions under FRAMEWORKS_DIR, by id
    loader_call     \* the last call of the loader and what it returned

vars == <<req, pc, yielded, frames, response, total_content, nchunks,
          providerCalls, providerResult, call, cache, connected, native,
          text_stream, final_message,
          cost_args, cost_result, prompt_args, prompt_result, tasks,
          disk, loader_call>>

requestVars == <<req, pc, yielded, frames, response, total_content, nchunks,
                 providerCalls, providerResult, call, cache, connected, native,
                 text_stream, final_message>>

costVars == <<cost_args, cost_result>>

promptVars == <<prompt_args, prompt_result>>

loaderVars == <<disk, loader_call>>

\* what the steps of the gateway handling one request at a time leave alone
offVars == <<costVars, promptVars, tasks, loaderVars>>

---------------------------------------------------------------------------
(* Bounds of the model. *)

\* native chunks a provider stream delivers at most
MaxChunks == 3

\* largest token count handed to calculate_cost in CostSpec
MaxTokens == 10

\* native chunks a provider stream delivers at most to each of two
\* concurrent tasks
MaxPairChunks == 2

\* context documents a prompt assembly is given at most in PromptSpec
MaxDocs == 2

---------------------------------------------------------------------------
(* Pricing tables and cost calculators. *)

\* OpenAIClient.calculate_cost's table, in 1e-8 USD per token
OpenAIPricing ==
    "gpt-5" :> [input |-> 125, output |-> 1000]
    @@ "gpt-5-mini" :> [input |-> 25, output |-> 100]
    @@ "gpt-5-nano" :> [input |-> 5, output |-> 40]
    @@ "gpt-4-turbo-preview" :> [input |-> 1000, output |-> 3000]
    @@ "gpt-4-turbo" :> [input |-> 1000, output |-> 3000]
    @@ "gpt-4" :> [input |-> 3000, output |-> 6000]
    @@ "gpt-3.5-turbo" :> [input |-> 50, output |-> 150]
    @@ "gpt-4o" :> [input |-> 500, output |-> 1500]
    @@ "gpt-4o-mini" :> [input |-> 15, output |-> 60]

\* ClaudeClient.calculate_cost's table, in 1e-8 USD per token
ClaudePricing ==
    "claude-3-5-sonnet-20241022" :> [input |-> 300, output |-> 1500]
    @@ "claude-3-opus-20240229" :> [input |-> 1500, output |-> 7500]
    @@ "claude-3-5-haiku-20241022" :> [input |-> 100, output |-> 500]

\* a faulty fallback: pricing.get falls back to another entry of the table
OpenAIDefaultModelLegacy == "gpt-4"

\* the entry pricing.get(model, pricing["gpt-5"]) falls back to
OpenAIDefaultModel == "gpt-5"

\* the entry pricing.get(model, pricing["claude-3-5-sonnet-20241022"]) falls back to
ClaudeDefaultModel == "claude-3-5-sonnet-20241022"

\* pricing.get(model, pricing[default])
PricingGet(pricing, model, default) ==
    IF model \in DOMAIN pricing THEN pricing[model] ELSE pricing[default]

\* a faulty calculate_cost: the two rates are applied to the wrong token counts
OpenAICalculateCostSwapped(input_tokens, output_tokens, model) ==
    LET model_pricing == PricingGet(OpenAIPricing, model, OpenAIDefaultModel)
    IN  input_tokens * model_pricing.output + output_tokens * model_pricing.input

\* a faulty calculate_cost: the output cost is subtracted instead of added
OpenAICalculateCostMinus(input_tokens, output_tokens, model) ==
    LET model_pricing == PricingGet(OpenAIPricing, model, OpenAIDefaultModel)
    IN  input_tokens * model_pricing.input - output_tokens * model_pricing.output

\* OpenAIClient.calculate_cost
OpenAICalculateCost(input_tokens, output_tokens, model) ==
    LET model_pricing == PricingGet(OpenAIPricing, model, OpenAIDefaultModel)
        input_cost == input_tokens * model_pricing.input
        output_cost == output_tokens * model_pricing.output
    IN  input_cost + output_cost

\* ClaudeClient.calculate_cost
ClaudeCalculateCost(input_tokens, output_tokens, model) ==
    LET model_pricing == PricingGet(ClaudePricing, model, ClaudeDefaultModel)
        input_cost == input_tokens * model_pricing.input
        output_cost == output_tokens * model_pricing.output
    IN  input_cost + output_cost

\* calculate_cost of the client of the given provider
CalculateCost(provider, input_tokens, output_tokens, model) ==
    IF provider = "openai"
    THEN OpenAICalculateCost(input_tokens, output_tokens, model)
    ELSE ClaudeCalculateCost(input_tokens, output_tokens, model)

\* the pricing table of the client of the given provider
PricingOf(provider) ==
    IF provider = "openai" THEN OpenAIPricing ELSE ClaudePricing

---------------------------------------------------------------------------
(* Texts. *)

\* whitespace atoms, the separators of str.split()
Whitespace == {" ", "\n"}

RECURSIVE WordCountFrom(_, _)
\* len(text.split()): the maximal runs of non-whitespace atoms; inWord tells
\* whether the atom before the text was part of a word
WordCountFrom(text, inWord) ==
    IF text = <<>> THEN 0
    ELSE IF Head(text) \in Whitespace THEN WordCountFrom(Tail(text), FALSE)
    ELSE (IF inWord THEN 0 ELSE 1) + WordCountFrom(Tail(text), TRUE)

\* len(text.split())
WordCount(text) == WordCountFrom(text, FALSE)

RECURSIVE CharLen(_)
\* len(text): the characters of all atoms
CharLen(text) ==
    IF text = <<>> THEN 0 ELSE Len(Head(text)) + CharLen(Tail(text))

RECURSIVE Join(_, _)
\* sep.join(parts)
Join(sep, parts) ==
    IF parts = <<>> THEN <<>>
    ELSE IF Len(parts) = 1 THEN parts[1]
    ELSE parts[1] \o sep \o Join(sep, Tail(parts))

\* Python's None, where an Optional[str] is absent: a value no text equals
None == <<"<None>">>

\* Python truthiness of an Optional[str]: None and the empty text are falsy
Truthy(x) == x # None /\ x # <<>>

---------------------------------------------------------------------------
(* Canonical events. *)

\* {"type": "content_block_delta", "delta": {"text": text}}
ContentDelta(text) == [type |-> "content_block_delta", delta |-> [text |-> text]]

\* {"type": "message_stop", "usage": {"input_tokens": .., "output_tokens": ..}}
MessageStop(input_tokens, output_tokens) ==
    [type |-> "message_stop",
     usage |-> [input_tokens |-> input_tokens, output_tokens |-> output_tokens]]

\* {"type": "error", "error": f"{type(e).__name__}: {str(e)}"}
ErrorEvent(e) == [type |-> "error", error |-> e]

\* {"type": "conversation_id", "conversation_id": conversation_id}
ConversationFrame(conversation_id) ==
    [type |-> "conversation_id", conversation_id |-> conversation_id]

\* the events that end a canonical sequence
TerminalTypes == {"message_stop", "error"}

\* exceptions a provider call, a chunk read or a close may raise
Exceptions == {"APIConnectionError: Connection error.", "AuthenticationError: invalid x-api-key"}

---------------------------------------------------------------------------
(* Framework loader. *)

\* the framework definitions on disk, by id: the JSON files under
\* FRAMEWORKS_DIR; one with an example and two questions, one with neither
\* key, one with an empty example and an empty question list
FrameworkFiles ==
    "rice" :> [id |-> "rice", name |-> <<"RICE">>,
               system_prompt |-> <<"You", " ", "score", " ", "features.">>,
               example_output |-> <<"#", " ", "RICE", "\n", "Reach:", " ", "10">>,
               guiding_questions |-> << <<"Q1?">>, <<"Q2?">> >>]
    @@ "swot" :> [id |-> "swot", name |-> <<"SWOT">>,
                  system_prompt |-> <<"List", " ", "strengths.">>]
    @@ "okr" :> [id |-> "okr", name |-> <<"OKR">>,
                 system_prompt |-> <<"Write", " ", "objectives.">>,
                 example_output |-> <<>>,
                 guiding_questions |-> <<>>]

\* dict.get(key, default)
Get(d, key, default) == IF key \in DOMAIN d THEN d[key] ELSE default

\* a faulty lookup: the cache is not consulted, the files are read each time
LoadFrameworkAlwaysSearching(files, c, framework_id) ==
    IF framework_id \in DOMAIN files
    THEN [found |-> TRUE, returned |-> files[framework_id],
          cache |-> (framework_id :> files[framework_id]) @@ c,
          searched |-> TRUE]
    ELSE [found |-> FALSE, returned |-> None, cache |-> c, searched |-> TRUE]

\* FrameworkLoader.load_framework with the definitions files on disk and the
\* cache c: whether it found a definition, what it returns, the cache it
\* leaves, and whether it went to the category directories for
\* <framework_id>.json.  The categories file is taken as fixed, every
\* definition lying in a listed category directory.
LoadFramework(files, c, framework_id) ==
    IF framework_id \in DOMAIN c
    THEN [found |-> TRUE, returned |-> c[framework_id], cache |-> c,
          searched |-> FALSE]
    ELSE IF framework_id \in DOMAIN files
         THEN [found |-> TRUE, returned |-> files[framework_id],
               cache |-> (framework_id :> files[framework_id]) @@ c,
               searched |-> TRUE]
    ELSE [found |-> FALSE, returned |-> None, cache |-> c, searched |-> TRUE]

\* FrameworkLoader.get_all_frameworks: every definition file is read again
\* and stored in the cache under its "id" entry, over what was there (for
\* two files of one id the later of the directory listing would win; the
\* definitions here have distinct ids).  The list is returned in directory
\* order, which is not fixed: it is kept as a set.
AllFrameworks(files, c) ==
    LET read == {files[f] : f \in DOMAIN files}
        ids == {framework.id : framework \in read}
    IN  [returned |-> read,
         cache |-> [k \in ids \cup DOMAIN c |->
                       IF k \in ids
                       THEN CHOOSE framework \in read : framework.id = k
                       ELSE c[k]]]

\* a faulty lookup: a warm cache answers with an entry whatever the id asked
LoadedFrameworkAnyCached(c, framework_id) ==
    IF DOMAIN c # {} THEN c[CHOOSE k \in DOMAIN c : TRUE]
    ELSE IF framework_id \in DOMAIN disk THEN disk[framework_id]
    ELSE None

\* FrameworkLoader.load_framework: the value returned (None when not found)
LoadedFramework(c, framework_id) == LoadFramework(disk, c, framework_id).returned

\* FrameworkLoader.load_framework: the cache it leaves
CacheAfterLoad(c, framework_id) == LoadFramework(disk, c, framework_id).cache

\* whether get_framework(framework_id) finds a definition
Found(c, framework_id) == LoadFramework(disk, c, framework_id).found

---------------------------------------------------------------------------
(* Prompt assembly of generate_framework and generate_framework_stream. *)

\* a faulty header: the source line is written for every document with a url
DocSectionSourceForAnyType(doc) ==
    LET base == <<"##", " ", "Document:", " ">> \o doc.name
        doc_header ==
            IF Truthy(doc.url)
            THEN base \o <<"\n", "Source:", " ">> \o doc.url
            ELSE IF doc.type = "pdf"
                 THEN base \o <<"\n", "(PDF", " ", "document)">>
                 ELSE base
    IN  doc_header \o <<"\n", "\n">> \o doc.content

\* doc_header plus content: one labeled section of the assembled context
DocSection(doc) ==
    LET base == <<"##", " ", "Document:", " ">> \o doc.name
        doc_header ==
            IF doc.type = "url" /\ Truthy(doc.url)
            THEN base \o <<"\n", "Source:", " ">> \o doc.url
            ELSE IF doc.type = "pdf"
                 THEN base \o <<"\n", "(PDF", " ", "document)">>
                 ELSE base
    IN  doc_header \o <<"\n", "\n">> \o doc.content

\* the separator between two sections
SectionSeparator == <<"\n", "\n", "---", "\n", "\n">>

\* the placeholder standing for an empty document list
NoContextPlaceholder == <<"No", " ", "context", " ", "documents", " ", "provided.">>

\* a faulty assembly: an empty document list gives an empty context
AssembledContextNoPlaceholder(context_documents) ==
    Join(SectionSeparator,
         [i \in 1..Len(context_documents) |-> DocSection(context_documents[i])])

\* assembled_context
AssembledContext(context_documents) ==
    LET context_sections ==
            [i \in 1..Len(context_documents) |-> DocSection(context_documents[i])]
    IN  IF context_sections # <<>>
        THEN Join(SectionSeparator, context_sections)
        ELSE NoContextPlaceholder

\* system_prompt: the template's, with its example output appended
SystemPrompt(framework) ==
    LET system_prompt == Get(framework, "system_prompt", <<>>)
    IN  IF Truthy(Get(framework, "example_output", None))
        THEN system_prompt
             \o <<"\n", "\n", "##", " ", "Example", " ", "Output", " ", "Format:", "\n", "\n">>
             \o framework.example_output
        ELSE system_prompt

\* a faulty handler: the example is appended to the template's own
\* system_prompt entry, framework["system_prompt"] += ...
TemplateAfterPromptsAppendedInPlace(framework) ==
    IF Truthy(Get(framework, "example_output", None))
    THEN [framework EXCEPT !.system_prompt = SystemPrompt(framework)]
    ELSE framework

\* the template dict as building the prompts leaves it: system_prompt is a
\* local str that += rebinds, the questions are only read into a new list
TemplateAfterPrompts(framework) == framework

\* the loader's cache after a generation handler looked the framework up and
\* built its prompts: the handler holds the cached dict itself, not a copy
CacheAfterGenerate(c, framework_id) ==
    IF framework_id \in DOMAIN CacheAfterLoad(c, framework_id)
    THEN (framework_id :> TemplateAfterPrompts(LoadedFramework(c, framework_id)))
         @@ CacheAfterLoad(c, framework_id)
    ELSE c

\* the instruction used when request.user_prompt is blank
DefaultInstruction(framework) ==
    <<"Generate", " ", "a", " ">> \o framework.name
    \o <<" ", "based", " ", "on", " ", "the", " ", "context", " ", "provided", " ", "above.">>

\* the length under which guiding questions are appended
GuidingThreshold == 50

\* a faulty choice: the length test is made on the instruction put in the prompt
ThresholdSubjectResolved(user_prompt, instruction) == instruction

\* the text whose length decides on the guiding questions: request.user_prompt
\* as supplied, not the instruction put in the prompt
ThresholdSubject(user_prompt, instruction) == user_prompt

\* a faulty test: an instruction of exactly the threshold length still gets
\* the questions
AppendsQuestionsInclusive(subject, questions) ==
    CharLen(subject) <= GuidingThreshold /\ questions # <<>>

\* len(request.user_prompt) < 50 and framework.get("guiding_questions")
AppendsQuestions(subject, questions) ==
    CharLen(subject) < GuidingThreshold /\ questions # <<>>

\* request.user_prompt or the default instruction
ResolvedInstruction(framework, user_prompt) ==
    IF Truthy(user_prompt) THEN user_prompt ELSE DefaultInstruction(framework)

\* user_prompt: "\n".join(user_prompt_parts)
UserPrompt(framework, context_documents, user_prompt) ==
    LET instruction == ResolvedInstruction(framework, user_prompt)
        parts ==
            << <<"#", " ", "Context", " ", "Documents">>,
               AssembledContext(context_documents),
               <<>>,
               <<"#", " ", "Task">>,
               instruction >>
        questions == Get(framework, "guiding_questions", <<>>)
        question_parts ==
            IF AppendsQuestions(ThresholdSubject(user_prompt, instruction), questions)
            THEN << <<"\n", "##", " ", "Consider", " ", "These", " ", "Questions:">> >>
                 \o [i \in 1..Len(questions) |-> <<"-", " ">> \o questions[i]]
            ELSE <<>>
    IN  Join(<<"\n">>, parts \o question_parts)

\* the messages generate_framework and its stream hand to the client
FrameworkMessages(framework, context_documents, user_prompt) ==
    << [role |-> "system", content |-> SystemPrompt(framework)],
       [role |-> "user",
        content |-> UserPrompt(framework, context_documents, user_prompt)] >>

---------------------------------------------------------------------------
(* Requests. *)

\* model identifiers a request names: two of the table, one unknown to it
RequestModels == {"gpt-5-mini", "gpt-4o", "my-finetune"}

\* caller-supplied conversation ids: absent, empty, given
ConversationIds == {None, <<>>, <<"c1">>}

\* f"conv-{os.urandom(8).hex()}": the ids the gateway may generate
GeneratedIds == {<<"conv-", "3f9a">>, <<"conv-", "b210">>}

\* conversations and optional system prompts of chat requests: one message,
\* and a system prompt of 2 words before messages of 1, 2 and 3 words, and
\* before messages of 7, 7 and 4 words
ChatPrompts ==
    { [messages |-> << [role |-> "user", content |-> <<"Say", " ", "hello">>] >>,
       system |-> None],
      [messages |-> << [role |-> "user", content |-> <<"Hi">>],
                       [role |-> "assistant", content |-> <<"Hello", "\n", "there">>],
                       [role |-> "user", content |-> <<"Summarize", " ", "this", " ", "plan">>] >>,
       system |-> <<"Be", " ", "brief">>],
      [messages |-> << [role |-> "user",
                        content |-> <<"Plan", " ", "the", " ", "launch", " ", "of", " ",
                                      "our", " ", "new", " ", "app">>],
                       [role |-> "assistant",
                        content |-> <<"Which", " ", "market", " ", "do", " ", "you", " ",
                                      "want", " ", "to", " ", "target?">>],
                       [role |-> "user", content |-> <<"Europe,", " ", "then", " ", "the", " ", "US">>] >>,
       system |-> <<"Be", " ", "brief">>] }

\* framework ids of generation requests: two on disk, one not
FrameworkIds == {"rice", "swot", "missing"}

\* context documents of generation requests
DocumentLists ==
    { <<>>,
      << [id |-> "d1", name |-> <<"Notes">>, type |-> "text",
          content |-> <<"Ship", " ", "fast">>, url |-> None],
         [id |-> "d2", name |-> <<"Blog">>, type |-> "url",
          content |-> <<"Users", " ", "churn">>, url |-> <<"http://x">>] >> }

\* instructions of generation requests: blank, short, 50 characters or more
UserPrompts ==
    { <<>>,
      <<"Score", " ", "it">>,
      <<"Prioritize", " ", "the", " ", "roadmap", " ", "features", " ", "for",
        " ", "the", " ", "next", " ", "quarter">> }

\* ChatRequest of POST /chat and POST /chat/stream
ChatRequests(endpoint) ==
    { [endpoint |-> endpoint, provider |-> "openai", model |-> m,
       conversation_id |-> c, messages |-> p.messages, system |-> p.system] :
      m \in RequestModels, c \in ConversationIds, p \in ChatPrompts }

\* GenerateFrameworkRequest of POST /generate-framework and its stream
GenerateFrameworkRequests(endpoint) ==
    { [endpoint |-> endpoint, provider |-> "openai", model |-> m,
       framework_id |-> f, context_documents |-> d, user_prompt |-> u] :
      m \in {"gpt-5-mini", "my-finetune"}, f \in FrameworkIds,
      d \in DocumentLists, u \in UserPrompts }

\* a call of an adapter's chat_stream by a consumer that reads it to its end
DirectCalls ==
    { [endpoint |-> "direct", provider |-> pr, model |-> "claude-3-5-sonnet-20241022",
       messages |-> p.messages, system |-> p.system] :
      pr \in {"claude", "openai"}, p \in ChatPrompts }

\* no request is being handled
NoRequest == [endpoint |-> "none"]

\* no adapter call was made
NoCall == [made |-> FALSE]

\* stream.get_final_message() has not returned
NoMessage == [returned |-> FALSE]

\* the loader has not been called
NoLoaderCall == [op |-> "none"]

\* no response was produced
NoResponse == [status |-> 0]

\* the endpoints that stream through the gateway's generate()
GatewayStreams == {"chat_stream", "generate_framework_stream"}

\* the requests that run an adapter's chat_stream
Streaming == GatewayStreams \cup {"direct"}

---------------------------------------------------------------------------
(* Provider behaviour. *)

\* the text of a native chunk; the empty one is a chunk without content
ChunkTexts == {<<>>, <<"Hi">>, <<" ", "there">>}

\* token counts a provider reports in a usage object
ReportedTokens == {0, 2, 10}

\* the model names a non-streaming reply may carry for a requested model
ReplyModels(model) == {model, "gpt-5-2025-08-07"}

\* the replies of a non-streaming provider call
Replies(model) ==
    { [content |-> <<"Done.">>,
       usage |-> [input_tokens |-> i, output_tokens |-> o],
       model |-> m, stop_reason |-> "stop"] :
      i \in ReportedTokens, o \in ReportedTokens, m \in ReplyModels(model) }

---------------------------------------------------------------------------
(* Provider adapters: chat_stream of ClaudeClient and OpenAIClient. *)

\* full_messages of OpenAIClient: the system prompt, when given, goes first
FullMessages(messages, system) ==
    IF Truthy(system)
    THEN <<[role |-> "system", content |-> system]>> \o messages
    ELSE messages

RECURSIVE SumWords(_)
\* the words of all messages
SumWords(messages) ==
    IF messages = <<>> THEN 0
    ELSE WordCount(Head(messages).content) + SumWords(Tail(messages))

(* The estimates are computed in binary64 floats.  Every float that occurs  *)
(* is a word count times 1.3 up to rounding, and is kept exactly as the     *)
(* pair (words, err) standing for  13 * words / 10 + err * 2^-52 / 10.      *)
(* The literal 1.3 is the float 1.3 + 2 * 2^-52 / 10, the pair (1, 2).      *)

\* the float 13 * words / 10 + err * 2^-52 / 10
Float(words, err) == [words |-> words, err |-> err]

RECURSIVE Pow2(_)
\* 2^n
Pow2(n) == IF n = 0 THEN 1 ELSE 2 * Pow2(n - 1)

\* 2^n modulo 10, for n >= 1
Pow2Mod10(n) ==
    CASE n % 4 = 0 -> 6
      [] n % 4 = 1 -> 2
      [] n % 4 = 2 -> 4
      [] OTHER -> 8

RECURSIVE ExponentFrom(_, _)
\* the binary exponent of 13 * words / 10, searched upwards from e: the
\* spacing of the floats around that value is 2^(exponent - 52)
ExponentFrom(words, e) ==
    IF 13 * words >= 10 * Pow2(e + 1) THEN ExponentFrom(words, e + 1) ELSE e

\* the exact value (words, err), counted in units of 2^-52 / 10, modulo the
\* float spacing 10 * 2^e of those units
Residue(words, err, e) ==
    (Pow2(e) * ((13 * words * Pow2Mod10(52 - e)) % 10) + err) % (10 * Pow2(e))

\* IEEE 754 rounding of the exact value (words, err) to the nearest float,
\* ties to the even one: the err of the result
RoundToFloat(words, err) ==
    IF words = 0 THEN 0
    ELSE LET e == ExponentFrom(words, 0)
             spacing == 10 * Pow2(e)
             r == Residue(words, err, e)
             odd == (Residue(words, err, e + 1) - r) \div spacing
         IN  IF 2 * r < spacing \/ (2 * r = spacing /\ odd = 0)
             THEN err - r
             ELSE err + spacing - r

\* words * 1.3
FloatTimes13(words) == Float(words, RoundToFloat(words, 2 * words))

\* a + b
FloatAdd(a, b) ==
    Float(a.words + b.words, RoundToFloat(a.words + b.words, a.err + b.err))

\* int(x): truncation of a float that is not negative
FloatInt(x) ==
    IF (13 * x.words) % 10 = 0 /\ x.err < 0
    THEN (13 * x.words) \div 10 - 1
    ELSE (13 * x.words) \div 10

RECURSIVE FloatSum(_, _)
\* sum(len(msg["content"].split()) * 1.3 for msg in messages), added from
\* the left onto acc
FloatSum(acc, messages) ==
    IF messages = <<>> THEN acc
    ELSE FloatSum(FloatAdd(acc, FloatTimes13(WordCount(Head(messages).content))),
                  Tail(messages))

\* int(words * 1.3)
EstimateTokens(words) == FloatInt(FloatTimes13(words))

\* the usage event OpenAIClient.chat_stream yields after the last chunk
OpenAIUsageEvent(full_messages, content) ==
    MessageStop(FloatInt(FloatSum(Float(0, 0), full_messages)),
                EstimateTokens(WordCount(content)))

\* the usage event ClaudeClient.chat_stream yields from the final message
ClaudeUsageEvent(input_tokens, output_tokens) ==
    MessageStop(input_tokens, output_tokens)

\* a faulty except clause: it reports the failure and still closes with a usage event
OnExceptionThenUsage(e) == <<ErrorEvent(e), MessageStop(0, 0)>>

\* a faulty except clause: the failure is swallowed and the generator just ends
OnExceptionSilent(e) == <<>>

\* what the except clause of chat_stream yields for exception e
OnException(e) == <<ErrorEvent(e)>>

\* a faulty except clause: after reporting the failure it issues the call again
RetryAfterFailure(calls) == [pc |-> "await_create", providerCalls |-> calls + 1]

\* where an except clause leaves the call: the generator or handler ends,
\* nothing is awaited again and no further provider call is issued
AfterFailure(calls) == [pc |-> "done", providerCalls |-> calls]

\* what OpenAIClient.chat_stream yields for a native chunk
OpenAIChunkEvents(text) ==
    IF text # <<>> THEN <<ContentDelta(text)>> ELSE <<>>

\* a faulty loop body: an empty increment is skipped, as OpenAIClient does
ClaudeChunkEventsSkippingEmpty(text) ==
    IF text # <<>> THEN <<ContentDelta(text)>> ELSE <<>>

\* what ClaudeClient.chat_stream yields for an increment of text_stream
ClaudeChunkEvents(text) == <<ContentDelta(text)>>

---------------------------------------------------------------------------
(* The gateway's stream loop: generate() of chat_stream and of             *)
(* generate_framework_stream.                                              *)

\* the chunk as the loop forwards it: cost added to a message_stop with usage
Normalize(chunk, model) ==
    IF chunk.type = "message_stop" /\ "usage" \in DOMAIN chunk
    THEN chunk @@ [cost |-> OpenAICalculateCost(chunk.usage.input_tokens,
                                                chunk.usage.output_tokens, model)]
    ELSE chunk

RECURSIVE ForwardAllDroppingErrors(_, _, _)
\* a faulty loop: it skips the chunks that are not content or usage
ForwardAllDroppingErrors(fs, chunks, model) ==
    IF chunks = <<>> THEN fs
    ELSE ForwardAllDroppingErrors(
             IF Head(chunks).type = "error" THEN fs
             ELSE Append(fs, Normalize(Head(chunks), model)),
             Tail(chunks), model)

RECURSIVE ForwardAll(_, _, _)
\* the frames after the loop body ran for each of the chunks, in order
ForwardAll(fs, chunks, model) ==
    IF chunks = <<>> THEN fs
    ELSE ForwardAll(Append(fs, Normalize(Head(chunks), model)), Tail(chunks), model)

\* a faulty choice of id: the supplied id is ignored
ConversationIdOfGenerated(conversation_id, generated) == generated

\* request.conversation_id or a generated id
ConversationIdOf(conversation_id, generated) ==
    IF Truthy(conversation_id) THEN conversation_id ELSE generated

\* the adapter yields events; a gateway stream forwards each as it arrives
Emit(events) ==
    /\ yielded' = yielded \o events
    /\ frames' = IF req.endpoint \in GatewayStreams
                 THEN ForwardAll(frames, events, req.model)
                 ELSE frames

\* the adapter's chat_stream is called and awaits the provider's answer
StartStream(messages, model, system) ==
    /\ call' = [made |-> TRUE, messages |-> messages, model |-> model, system |-> system]
    /\ pc' = "await_create"
    /\ providerCalls' = 1
    /\ providerResult' = "none"
    /\ yielded' = <<>>
    /\ total_content' = <<>>
    /\ nchunks' = 0
    /\ response' = NoResponse
    /\ connected' = TRUE
    /\ native' = "none"
    /\ text_stream' = <<>>
    /\ final_message' = NoMessage

\* client.chat is called and awaits the provider's answer
StartChat(messages, model, system) ==
    /\ call' = [made |-> TRUE, messages |-> messages, model |-> model, system |-> system]
    /\ pc' = "await_chat"
    /\ providerCalls' = 1
    /\ providerResult' = "none"
    /\ yielded' = <<>>
    /\ frames' = <<>>
    /\ total_content' = <<>>
    /\ nchunks' = 0
    /\ response' = NoResponse
    /\ connected' = TRUE
    /\ native' = "none"
    /\ text_stream' = <<>>
    /\ final_message' = NoMessage

\* the handler ends before any adapter call
EndWithoutCall ==
    /\ call' = NoCall
    /\ pc' = "done"
    /\ providerCalls' = 0
    /\ providerResult' = "none"
    /\ yielded' = <<>>
    /\ total_content' = <<>>
    /\ nchunks' = 0
    /\ connected' = TRUE
    /\ native' = "none"
    /\ text_stream' = <<>>
    /\ final_message' = NoMessage

\* a handler starts when the gateway holds no request
Ready == pc = "idle"

---------------------------------------------------------------------------
(* Handlers of main.py, up to their first wait for the provider. *)

\* POST /chat/stream: generate() sends the conversation id, then calls the adapter
ReceiveChatStream(r, generated) ==
    /\ Ready
    /\ req' = r
    /\ frames' = <<ConversationFrame(ConversationIdOf(r.conversation_id, generated))>>
    /\ StartStream(r.messages, r.model, r.system)
    /\ UNCHANGED <<cache, offVars>>

\* POST /generate-framework/stream: generate() looks the framework up, reports
\* a missing one and returns, or assembles the prompts and calls the adapter
ReceiveGenerateFrameworkStream(r) ==
    /\ Ready
    /\ req' = r
    /\ cache' = CacheAfterGenerate(cache, r.framework_id)
    /\ IF ~Found(cache, r.framework_id)
       THEN /\ frames' = <<ErrorEvent(<<"Framework", " ", r.framework_id, " ", "not", " ", "found">>)>>
            /\ response' = NoResponse
            /\ EndWithoutCall
       ELSE /\ frames' = <<>>
            /\ StartStream(FrameworkMessages(LoadedFramework(cache, r.framework_id),
                                             r.context_documents, r.user_prompt),
                           r.model, None)
    /\ UNCHANGED offVars

\* a consumer calls an adapter's chat_stream itself
ReceiveDirect(r) ==
    /\ Ready
    /\ req' = r
    /\ frames' = <<>>
    /\ StartStream(r.messages, r.model, r.system)
    /\ UNCHANGED <<cache, offVars>>

\* POST /chat: the handler calls client.chat
ReceiveChat(r) ==
    /\ Ready
    /\ req' = r
    /\ StartChat(r.messages, r.model, r.system)
    /\ UNCHANGED <<cache, offVars>>

\* a faulty handler: the 404 is caught by the generic clause and answered as a 500
FrameworkNotFoundAs500(framework_id) ==
    [status |-> 500,
     detail |-> <<"Framework", " ", "'", framework_id, "'", " ", "not", " ", "found">>]

\* the HTTPException raised for a missing framework, re-raised unchanged
FrameworkNotFound(framework_id) ==
    [status |-> 404,
     detail |-> <<"Framework", " ", "'", framework_id, "'", " ", "not", " ", "found">>]

\* POST /generate-framework: the handler looks the framework up, raises 404 for
\* a missing one (re-raised as it is), or assembles the prompts and calls client.chat
ReceiveGenerateFramework(r) ==
    /\ Ready
    /\ req' = r
    /\ cache' = CacheAfterGenerate(cache, r.framework_id)
    /\ IF ~Found(cache, r.framework_id)
       THEN /\ frames' = <<>>
            /\ response' = FrameworkNotFound(r.framework_id)
            /\ EndWithoutCall
       ELSE StartChat(FrameworkMessages(LoadedFramework(cache, r.framework_id),
                                        r.context_documents, r.user_prompt),
                      r.model, None)
    /\ UNCHANGED offVars

---------------------------------------------------------------------------
(* Steps of an adapter's chat_stream, one per answer of the provider. *)

\* the provider accepts the streaming call: iteration starts
CreateOk ==
    /\ pc = "await_create"
    /\ pc' = "await_chunk"
    /\ native' = "open"
    /\ UNCHANGED <<req, yielded, frames, response, total_content, nchunks,
                   providerCalls, providerResult, call, cache, connected, text_stream, final_message,
                   offVars>>

\* the streaming call raises: the except clause yields and the generator ends
CreateFail(e) ==
    /\ pc = "await_create"
    /\ Emit(OnException(e))
    /\ pc' = AfterFailure(providerCalls).pc
    /\ providerCalls' = AfterFailure(providerCalls).providerCalls
    /\ providerResult' = "failed"
    /\ UNCHANGED <<req, response, total_content, nchunks, call,
                   cache, connected, native, text_stream, final_message,
                   offVars>>

\* the native stream delivers a chunk
Chunk(text) ==
    /\ pc = "await_chunk"
    /\ nchunks < MaxChunks
    /\ nchunks' = nchunks + 1
    /\ IF req.provider = "openai"
       THEN /\ Emit(OpenAIChunkEvents(text))
            /\ total_content' = total_content \o text
            /\ UNCHANGED text_stream
       ELSE /\ Emit(ClaudeChunkEvents(text))
            /\ text_stream' = Append(text_stream, text)
            /\ UNCHANGED total_content
    /\ UNCHANGED <<req, pc, response, providerCalls, providerResult, call, cache,
                   connected, native, final_message, offVars>>

\* reading the native stream raises
ChunkFail(e) ==
    /\ pc = "await_chunk"
    /\ Emit(OnException(e))
    /\ pc' = AfterFailure(providerCalls).pc
    /\ providerCalls' = AfterFailure(providerCalls).providerCalls
    /\ providerResult' = "failed"
    /\ native' = "closed"
    /\ UNCHANGED <<req, response, total_content, nchunks, call,
                   cache, connected, text_stream, final_message,
                   offVars>>

\* the native stream ends: OpenAIClient yields its estimate and returns,
\* ClaudeClient awaits stream.get_final_message()
StreamEnd ==
    /\ pc = "await_chunk"
    /\ IF req.provider = "openai"
       THEN /\ Emit(<<OpenAIUsageEvent(FullMessages(call.messages, call.system),
                                       total_content)>>)
            /\ pc' = "done"
            /\ providerResult' = "ok"
       ELSE /\ pc' = "await_final"
            /\ UNCHANGED <<yielded, frames, providerResult>>
    /\ native' = IF req.provider = "openai" THEN "closed" ELSE native
    /\ UNCHANGED <<req, response, total_content, nchunks, providerCalls, call,
                   cache, connected, text_stream, final_message,
                   offVars>>

\* ClaudeClient: the final message arrives; its usage is yielded inside the
\* async with block, whose exit then closes the native stream
FinalMessageOk(input_tokens, output_tokens) ==
    /\ pc = "await_final"
    /\ Emit(<<ClaudeUsageEvent(input_tokens, output_tokens)>>)
    /\ final_message' = [returned |-> TRUE,
                         usage |-> [input_tokens |-> input_tokens,
                                    output_tokens |-> output_tokens]]
    /\ pc' = "await_close"
    /\ providerResult' = "ok"
    /\ UNCHANGED <<req, response, total_content, nchunks, providerCalls, call,
                   cache, connected, native, text_stream, offVars>>

\* ClaudeClient: stream.get_final_message() raises
FinalMessageFail(e) ==
    /\ pc = "await_final"
    /\ Emit(OnException(e))
    /\ pc' = AfterFailure(providerCalls).pc
    /\ providerCalls' = AfterFailure(providerCalls).providerCalls
    /\ providerResult' = "failed"
    /\ native' = "closed"
    /\ UNCHANGED <<req, response, total_content, nchunks, call,
                   cache, connected, text_stream, final_message,
                   offVars>>

\* ClaudeClient: the async with block exits and the generator ends
CloseOk ==
    /\ pc = "await_close"
    /\ pc' = "done"
    /\ native' = "closed"
    /\ UNCHANGED <<req, yielded, frames, response, total_content, nchunks,
                   providerCalls, providerResult, call, cache, connected, text_stream, final_message,
                   offVars>>

\* ClaudeClient: closing the native stream raises inside the try block
CloseFail(e) ==
    /\ pc = "await_close"
    /\ Emit(OnException(e))
    /\ pc' = AfterFailure(providerCalls).pc
    /\ providerCalls' = AfterFailure(providerCalls).providerCalls
    /\ providerResult' = "failed"
    /\ native' = "closed"
    /\ UNCHANGED <<req, response, total_content, nchunks, call,
                   cache, connected, text_stream, final_message,
                   offVars>>

\* what becomes of the native stream when the generator holding it is
\* cancelled or dropped: ClaudeClient holds it in an async with block, whose
\* exit closes it; OpenAIClient.chat_stream has no async with, no finally and
\* no close(), so its stream is closed or not as the library's finalizers and
\* the garbage collector decide
NativeAfterAbandon(provider, n) ==
    IF n # "open" THEN {n}
    ELSE IF provider = "claude" THEN {"closed"}
    ELSE {"open", "closed"}

\* the consumer of a stream goes away while the generator waits for the
\* provider or is suspended at a yield: the generator is cancelled or dropped,
\* CancelledError and GeneratorExit pass the except Exception clauses, and
\* the generator is never resumed
Disconnect ==
    /\ req.endpoint \in Streaming
    /\ pc \in {"await_create", "await_chunk", "await_final", "await_close"}
    /\ connected' = FALSE
    /\ pc' = "cancelled"
    /\ native' \in NativeAfterAbandon(req.provider, native)
    /\ UNCHANGED <<req, yielded, frames, response, total_content, nchunks,
                   providerCalls, providerResult, call, cache, text_stream, final_message,
                   offVars>>

---------------------------------------------------------------------------
(* Non-streaming handlers: the rest of chat and generate_framework. *)

\* the body chat returns for a provider reply
ChatResponse(r, reply, generated) ==
    [status |-> 200,
     conversation_id |-> ConversationIdOf(r.conversation_id, generated),
     content |-> reply.content,
     usage |-> reply.usage,
     cost |-> OpenAICalculateCost(reply.usage.input_tokens,
                                  reply.usage.output_tokens, reply.model),
     model |-> reply.model]

\* what generate_framework answers for a provider reply: the log line reads
\* response['usage']['total_tokens'], and a KeyError there becomes a 500
GenerateFrameworkResponse(r, reply) ==
    LET cost == OpenAICalculateCost(reply.usage.input_tokens,
                                    reply.usage.output_tokens, reply.model)
    IN  IF "total_tokens" \in DOMAIN reply.usage
        THEN [status |-> 200,
              framework_id |-> r.framework_id,
              generated_content |-> reply.content,
              usage |-> reply.usage,
              cost |-> cost,
              model |-> reply.model]
        ELSE [status |-> 500, detail |-> <<"'total_tokens'">>]

\* client.chat returns the provider's reply
ChatReply(generated) ==
    /\ pc = "await_chat"
    /\ providerResult' = "ok"
    /\ \E reply \in Replies(call.model) :
           response' = IF req.endpoint = "chat"
                       THEN ChatResponse(req, reply, generated)
                       ELSE GenerateFrameworkResponse(req, reply)
    /\ pc' = "done"
    /\ UNCHANGED <<req, yielded, frames, total_content, nchunks, providerCalls,
                   call, cache, connected, native, text_stream, final_message,
                   offVars>>

\* a faulty except clause: the failure is answered as a success without content
ChatErrorAsEmptySuccess(e) ==
    [status |-> 200, content |-> <<>>, detail |-> <<e>>]

\* HTTPException(status_code=500, detail=str(e)) of the handlers' except clause
ChatError(e) == [status |-> 500, detail |-> <<e>>]

\* client.chat raises: the handler answers 500 with the exception's text
ChatFail(e) ==
    /\ pc = "await_chat"
    /\ providerResult' = "failed"
    /\ response' = ChatError(e)
    /\ pc' = AfterFailure(providerCalls).pc
    /\ providerCalls' = AfterFailure(providerCalls).providerCalls
    /\ UNCHANGED <<req, yielded, frames, total_content, nchunks,
                   call, cache, connected, native, text_stream, final_message,
                   offVars>>

\* the handler has returned and its response or stream was consumed, or its
\* consumer went away: the request-scoped objects are dropped, the loader's
\* cache stays
Complete ==
    /\ pc \in {"done", "cancelled"}
    /\ req' = NoRequest
    /\ pc' = "idle"
    /\ yielded' = <<>>
    /\ frames' = <<>>
    /\ response' = NoResponse
    /\ total_content' = <<>>
    /\ nchunks' = 0
    /\ providerCalls' = 0
    /\ providerResult' = "none"
    /\ call' = NoCall
    /\ connected' = TRUE
    /\ native' = "none"
    /\ text_stream' = <<>>
    /\ final_message' = NoMessage
    /\ UNCHANGED <<cache, offVars>>

---------------------------------------------------------------------------
(* The gateway handling requests one after another. *)

\* no calculate_cost call is being observed
NoCostArgs == [provider |-> "none"]

\* calculate_cost has not returned
NoCost == [returned |-> FALSE]

\* no prompt assembly is being observed
NoPromptArgs == [framework_id |-> "none"]

\* the prompt assembly has not run
NoPrompt == [built |-> FALSE]

\* the two concurrent tasks
Tasks == {1, 2}

\* a task that has not received its request
IdleTask == [pc |-> "idle"]

\* no concurrent request is being handled
NoTasks == [t \in Tasks |-> IdleTask]

Init ==
    /\ req = NoRequest
    /\ pc = "idle"
    /\ yielded = <<>>
    /\ frames = <<>>
    /\ response = NoResponse
    /\ total_content = <<>>
    /\ nchunks = 0
    /\ providerCalls = 0
    /\ providerResult = "none"
    /\ call = NoCall
    /\ cache = <<>>
    /\ connected = TRUE
    /\ native = "none"
    /\ text_stream = <<>>
    /\ final_message = NoMessage
    /\ cost_args = NoCostArgs
    /\ cost_result = NoCost
    /\ prompt_args = NoPromptArgs
    /\ prompt_result = NoPrompt
    /\ tasks = NoTasks
    /\ disk = FrameworkFiles
    /\ loader_call = NoLoaderCall

Next ==
    \/ \E r \in ChatRequests("chat_stream"), g \in GeneratedIds : ReceiveChatStream(r, g)
    \/ \E r \in GenerateFrameworkRequests("generate_framework_stream") :
           ReceiveGenerateFrameworkStream(r)
    \/ \E r \in DirectCalls : ReceiveDirect(r)
    \/ \E r \in ChatRequests("chat") : ReceiveChat(r)
    \/ \E r \in GenerateFrameworkRequests("generate_framework") :
           ReceiveGenerateFramework(r)
    \/ CreateOk
    \/ \E e \in Exceptions : CreateFail(e)
    \/ \E text \in ChunkTexts : Chunk(text)
    \/ \E e \in Exceptions : ChunkFail(e)
    \/ StreamEnd
    \/ \E i \in ReportedTokens, o \in ReportedTokens : FinalMessageOk(i, o)
    \/ \E e \in Exceptions : FinalMessageFail(e)
    \/ CloseOk
    \/ \E e \in Exceptions : CloseFail(e)
    \/ Disconnect
    \/ \E g \in GeneratedIds : ChatReply(g)
    \/ \E e \in Exceptions : ChatFail(e)
    \/ Complete

Spec == Init /\ [][Next]_vars

---------------------------------------------------------------------------
(* Streaming requests whose consumer keeps reading and whose provider      *)
(* answers every wait: the native stream ends or fails within MaxChunks    *)
(* chunks.                                                                 *)

\* the provider answers what the adapter's chat_stream is waiting for
ProviderAnswers ==
    \/ CreateOk
    \/ \E e \in Exceptions : CreateFail(e)
    \/ \E text \in ChunkTexts : Chunk(text)
    \/ \E e \in Exceptions : ChunkFail(e)
    \/ StreamEnd
    \/ \E i \in ReportedTokens, o \in ReportedTokens : FinalMessageOk(i, o)
    \/ \E e \in Exceptions : FinalMessageFail(e)
    \/ CloseOk
    \/ \E e \in Exceptions : CloseFail(e)

LiveNext ==
    \/ \E r \in ChatRequests("chat_stream"), g \in GeneratedIds : ReceiveChatStream(r, g)
    \/ \E r \in GenerateFrameworkRequests("generate_framework_stream") :
           ReceiveGenerateFrameworkStream(r)
    \/ \E r \in DirectCalls : ReceiveDirect(r)
    \/ ProviderAnswers
    \/ Complete

\* the event loop resumes the generator whenever the provider has answered
LiveSpec == Init /\ [][LiveNext]_vars /\ WF_vars(ProviderAnswers)

---------------------------------------------------------------------------
(* Two streaming requests handled concurrently by the event loop.  Each    *)
(* generate() has its own locals (its request, its client, the adapter's   *)
(* accumulator); the loader's cache is a module global and is shared.      *)

\* the streaming requests of the two tasks
PairRequests ==
    { [endpoint |-> "chat_stream", provider |-> "openai", model |-> "gpt-4o",
       conversation_id |-> c, messages |-> p.messages, system |-> p.system] :
      c \in {None},
      p \in {q \in ChatPrompts : Len(q.messages) = 1} }
    \cup
    { [endpoint |-> "generate_framework_stream", provider |-> "openai",
       model |-> "gpt-5-mini", framework_id |-> f, context_documents |-> <<>>,
       user_prompt |-> <<"Score", " ", "it">>] :
      f \in FrameworkIds }

\* generate() of request r up to its first wait for the provider, the
\* loader's cache being c: the locals of the task
TaskStarted(r, generated, c) ==
    IF r.endpoint = "chat_stream"
    THEN [pc |-> "await_create", req |-> r, generated |-> generated,
          full_messages |-> FullMessages(r.messages, r.system),
          frames |-> <<ConversationFrame(ConversationIdOf(r.conversation_id, generated))>>,
          total_content |-> <<>>, nchunks |-> 0, answers |-> <<>>]
    ELSE IF ~Found(c, r.framework_id)
    THEN [pc |-> "done", req |-> r, generated |-> generated,
          full_messages |-> <<>>,
          frames |-> <<ErrorEvent(<<"Framework", " ", r.framework_id, " ", "not", " ", "found">>)>>,
          total_content |-> <<>>, nchunks |-> 0, answers |-> <<>>]
    ELSE [pc |-> "await_create", req |-> r, generated |-> generated,
          full_messages |->
              FullMessages(FrameworkMessages(LoadedFramework(c, r.framework_id),
                                             r.context_documents, r.user_prompt),
                           None),
          frames |-> <<>>,
          total_content |-> <<>>, nchunks |-> 0, answers |-> <<>>]

\* the exception a provider call or a chunk read of a task may raise
PairExceptions == {"APIConnectionError: Connection error."}

\* what the provider may answer to a task waiting for it
Answers(task) ==
    IF task.pc = "await_create"
    THEN {[kind |-> "created"]} \cup {[kind |-> "raise", error |-> e] : e \in PairExceptions}
    ELSE IF task.pc = "await_chunk"
    THEN {[kind |-> "chunk", text |-> x] :
              x \in {y \in ChunkTexts : y # <<>> /\ task.nchunks < MaxPairChunks}}
         \cup {[kind |-> "end"]}
         \cup {[kind |-> "raise", error |-> e] : e \in PairExceptions}
    ELSE {}

\* the locals of a task after the provider's answer a: OpenAIClient.chat_stream
\* resumes, and the loop of generate() forwards what it yields
TaskAnswered(task, a) ==
    LET forward(events) == ForwardAll(task.frames, events, task.req.model)
        answered == [task EXCEPT !.answers = Append(@, a)]
    IN  CASE a.kind = "created" -> [answered EXCEPT !.pc = "await_chunk"]
          [] a.kind = "chunk" ->
                 [answered EXCEPT !.frames = forward(OpenAIChunkEvents(a.text)),
                                  !.total_content = @ \o a.text,
                                  !.nchunks = @ + 1]
          [] a.kind = "end" ->
                 [answered EXCEPT
                      !.frames = forward(<<OpenAIUsageEvent(task.full_messages,
                                                            task.total_content)>>),
                      !.pc = "done"]
          [] OTHER ->
                 [answered EXCEPT !.frames = forward(OnException(a.error)),
                                  !.pc = AfterFailure(1).pc]

\* task t receives a streaming request: its generate() runs to its first wait
PairReceive(t, r, generated) ==
    /\ tasks[t].pc = "idle"
    /\ tasks' = [tasks EXCEPT ![t] = TaskStarted(r, generated, cache)]
    /\ cache' = IF r.endpoint = "generate_framework_stream"
                THEN CacheAfterGenerate(cache, r.framework_id)
                ELSE cache
    /\ UNCHANGED <<req, pc, yielded, frames, response, total_content, nchunks,
                   providerCalls, providerResult, call, connected, native,
                   text_stream, final_message, costVars, promptVars, loaderVars>>

\* the provider answers task t, whatever the other task is doing
PairAnswer(t, a) ==
    /\ tasks[t].pc # "idle"
    /\ a \in Answers(tasks[t])
    /\ tasks' = [tasks EXCEPT ![t] = TaskAnswered(tasks[t], a)]
    /\ UNCHANGED <<requestVars, costVars, promptVars, loaderVars>>

PairNext ==
    \E t \in Tasks :
        \/ \E r \in PairRequests :
               \E g \in IF r.endpoint = "chat_stream" THEN GeneratedIds ELSE {None} :
                   PairReceive(t, r, g)
        \/ \E a \in Answers(tasks[t]) : PairAnswer(t, a)

PairSpec == Init /\ [][PairNext]_vars

---------------------------------------------------------------------------
(* The prompt assembly of generate_framework and generate_framework_stream *)
(* on its own, on inputs drawn from bounded sets.                          *)

\* context documents: plain text, a url document with its url, url documents
\* whose url is absent or empty, a pdf document that has a url
PromptDocuments ==
    { [id |-> "d1", name |-> <<"Notes">>, type |-> "text",
       content |-> <<"Ship", " ", "fast">>, url |-> None],
      [id |-> "d2", name |-> <<"Blog">>, type |-> "url",
       content |-> <<"Users", " ", "churn">>, url |-> <<"http://x">>],
      [id |-> "d3", name |-> <<"Wiki">>, type |-> "url",
       content |-> <<"Old", "\n", "page">>, url |-> None],
      [id |-> "d4", name |-> <<"Feed">>, type |-> "url",
       content |-> <<"Daily", " ", "digest">>, url |-> <<>>],
      [id |-> "d5", name |-> <<"Deck">>, type |-> "pdf",
       content |-> <<"Q3", " ", "goals">>, url |-> <<"http://y">>] }

\* the document lists of at most MaxDocs documents, repetitions included
PromptDocumentLists ==
    UNION {[1..n -> PromptDocuments] : n \in 0..MaxDocs}

\* instructions: empty, a single space, 8 characters, 49, 50 and 52 characters
PromptInstructions ==
    { <<>>,
      <<" ">>,
      <<"Score", " ", "it">>,
      <<"Prioritize", " ", "the", " ", "roadmap", " ", "features", " ", "for",
        " ", "the", " ", "next", " ", "year">>,
      <<"Prioritize", " ", "the", " ", "roadmap", " ", "features", " ", "for",
        " ", "the", " ", "next", " ", "cycle">>,
      <<"Prioritize", " ", "the", " ", "roadmap", " ", "features", " ", "for",
        " ", "the", " ", "next", " ", "quarter">> }

PromptInit ==
    /\ req = NoRequest
    /\ pc = "idle"
    /\ yielded = <<>>
    /\ frames = <<>>
    /\ response = NoResponse
    /\ total_content = <<>>
    /\ nchunks = 0
    /\ providerCalls = 0
    /\ providerResult = "none"
    /\ call = NoCall
    /\ cache = <<>>
    /\ connected = TRUE
    /\ native = "none"
    /\ text_stream = <<>>
    /\ final_message = NoMessage
    /\ cost_args = NoCostArgs
    /\ cost_result = NoCost
    /\ prompt_args \in [framework_id : DOMAIN FrameworkFiles,
                        context_documents : PromptDocumentLists,
                        user_prompt : PromptInstructions]
    /\ prompt_result = NoPrompt
    /\ tasks = NoTasks
    /\ disk = FrameworkFiles
    /\ loader_call = NoLoaderCall

\* the handler assembles the context and builds the two prompts
Assemble ==
    /\ prompt_result = NoPrompt
    /\ LET framework == LoadedFramework(cache, prompt_args.framework_id)
       IN  prompt_result' =
               [built |-> TRUE,
                assembled_context |-> AssembledContext(prompt_args.context_documents),
                system_prompt |-> SystemPrompt(framework),
                user_prompt |-> UserPrompt(framework, prompt_args.context_documents,
                                           prompt_args.user_prompt)]
    /\ UNCHANGED <<requestVars, costVars, prompt_args, tasks, loaderVars>>

PromptNext == Assemble

PromptSpec == PromptInit /\ [][PromptNext]_vars

---------------------------------------------------------------------------
(* calculate_cost called on its own, on inputs drawn from bounded sets. *)

\* model identifiers handed to calculate_cost: every entry of both tables,
\* and two that neither table has
CostModels ==
    DOMAIN OpenAIPricing \cup DOMAIN ClaudePricing \cup {"claude-sonnet-4", "my-finetune"}

CostInit ==
    /\ req = NoRequest
    /\ pc = "idle"
    /\ yielded = <<>>
    /\ frames = <<>>
    /\ response = NoResponse
    /\ total_content = <<>>
    /\ nchunks = 0
    /\ providerCalls = 0
    /\ providerResult = "none"
    /\ call = NoCall
    /\ cache = <<>>
    /\ connected = TRUE
    /\ native = "none"
    /\ text_stream = <<>>
    /\ final_message = NoMessage
    /\ cost_args \in [provider : {"openai", "claude"}, model : CostModels,
                      input_tokens : 0..MaxTokens, output_tokens : 0..MaxTokens]
    /\ cost_result = NoCost
    /\ prompt_args = NoPromptArgs
    /\ prompt_result = NoPrompt
    /\ tasks = NoTasks
    /\ disk = FrameworkFiles
    /\ loader_call = NoLoaderCall

\* client.calculate_cost(input_tokens, output_tokens, model) returns
CostCall ==
    /\ cost_result = NoCost
    /\ cost_result' = [returned |-> TRUE,
                       value |-> CalculateCost(cost_args.provider, cost_args.input_tokens,
                                               cost_args.output_tokens, cost_args.model)]
    /\ UNCHANGED <<requestVars, cost_args, promptVars, tasks, loaderVars>>

CostNext == CostCall

CostSpec == CostInit /\ [][CostNext]_vars

---------------------------------------------------------------------------
(* The loader on its own: lookups and reloads while the definition files   *)
(* are edited, added and removed.                                          *)

\* the ids looked up: those of the definitions and one that never has a file
LoaderIds == DOMAIN FrameworkFiles \cup {"missing"}

\* the definitions whose files are edited and removed
EditedIds == {"rice", "swot"}

\* the definition of FrameworkFiles after an edit of its file
Edited(framework_id) ==
    [FrameworkFiles[framework_id] EXCEPT
        !.system_prompt = @ \o <<" ", "Be", " ", "brief.">>]

\* what the loader's calls leave alone
loaderOffVars == <<req, pc, yielded, frames, response, total_content, nchunks,
                   providerCalls, providerResult, call, connected, native,
                   text_stream, final_message, costVars, promptVars, tasks>>

\* get_framework(framework_id): _loader.load_framework(framework_id)
GetFramework(framework_id) ==
    LET loaded == LoadFramework(disk, cache, framework_id)
    IN  /\ cache' = loaded.cache
        /\ loader_call' =
              IF loaded.found
              THEN [op |-> "load_framework", framework_id |-> framework_id,
                    searched |-> loaded.searched, found |-> TRUE,
                    returned |-> loaded.returned]
              ELSE [op |-> "load_framework", framework_id |-> framework_id,
                    searched |-> loaded.searched, found |-> FALSE]
        /\ UNCHANGED <<disk, loaderOffVars>>

\* get_all_frameworks(): _loader.get_all_frameworks()
GetAllFrameworks ==
    LET all == AllFrameworks(disk, cache)
    IN  /\ cache' = all.cache
        /\ loader_call' = [op |-> "get_all_frameworks", frameworks |-> all.returned]
        /\ UNCHANGED <<disk, loaderOffVars>>

\* the file of a definition is written: as shipped, or edited
WriteDefinition(framework_id, framework) ==
    /\ IF framework_id \in DOMAIN disk THEN disk[framework_id] # framework ELSE TRUE
    /\ disk' = [k \in DOMAIN disk \cup {framework_id} |->
                   IF k = framework_id THEN framework ELSE disk[k]]
    /\ UNCHANGED <<cache, loader_call, loaderOffVars>>

\* the file of a definition is removed
RemoveDefinition(framework_id) ==
    /\ framework_id \in DOMAIN disk
    /\ disk' = [k \in DOMAIN disk \ {framework_id} |-> disk[k]]
    /\ UNCHANGED <<cache, loader_call, loaderOffVars>>

LoaderNext ==
    \/ \E framework_id \in LoaderIds : GetFramework(framework_id)
    \/ GetAllFrameworks
    \/ \E framework_id \in EditedIds :
          \E framework \in {FrameworkFiles[framework_id], Edited(framework_id)} :
             WriteDefinition(framework_id, framework)
    \/ \E framework_id \in EditedIds : RemoveDefinition(framework_id)

LoaderSpec == Init /\ [][LoaderNext]_vars

---------------------------------------------------------------------------
(* Properties. *)

\* the positions of yielded holding an event of one of the given types
Positions(events, types) == {i \in 1..Len(events) : events[i].type \in types}

\* the adapter events as the transport got them: the frames after the
\* conversation id frame of a chat stream
ForwardedFrames ==
    IF req.endpoint = "chat_stream" THEN Tail(frames) ELSE frames

\* C1: every chat_stream call of either adapter yields exactly one terminal
\* event (message_stop or error), as its last event, after content deltas only.
C1_OneTerminalEventLast ==
    (req.endpoint \in Streaming /\ call.made) =>
        /\ \A i \in Positions(yielded, TerminalTypes) : i = Len(yielded)
        /\ \A i \in 1..Len(yielded) :
               yielded[i].type \in TerminalTypes \cup {"content_block_delta"}
        /\ pc = "done" => Cardinality(Positions(yielded, TerminalTypes)) = 1

\* C2: whenever the provider call or the iteration fails, the adapter yields
\* exactly one error event in that step, after the deltas it had yielded, which
\* stay as they were; it is the only error, nothing is yielded after it (no
\* message_stop either) and the generator is finished.
C2_FailureYieldsOneFinalError ==
    [][ /\ (req.endpoint \in Streaming /\ providerResult # "failed"
                /\ providerResult' = "failed")
           => /\ \E e \in Exceptions : yielded' = Append(yielded, ErrorEvent(e))
              /\ Positions(yielded, {"error"}) = {}
              /\ pc' = "done"
        /\ (req.endpoint \in Streaming /\ providerResult = "failed"
                /\ req'.endpoint = req.endpoint)
           => /\ yielded' = yielded
              /\ pc' = "done" ]_vars

\* C2 witness: a failure in mid-stream, after a content delta was yielded
C2_Witness ==
    /\ req.endpoint \in Streaming
    /\ providerResult = "failed"
    /\ Len(yielded) >= 2
    /\ yielded[1].type = "content_block_delta"
    /\ yielded[Len(yielded)].type = "error"

\* C3: a gateway stream forwards every adapter event exactly once and in the
\* adapter's order; content and error events unchanged, a message_stop event
\* with nothing changed but the added cost.
C3_GatewayForwardsInOrder ==
    (req.endpoint \in GatewayStreams /\ call.made) =>
        /\ Len(ForwardedFrames) = Len(yielded)
        /\ \A i \in 1..Len(yielded) :
               IF yielded[i].type = "message_stop"
               THEN /\ DOMAIN ForwardedFrames[i] = DOMAIN yielded[i] \cup {"cost"}
                    /\ \A k \in DOMAIN yielded[i] : ForwardedFrames[i][k] = yielded[i][k]
               ELSE ForwardedFrames[i] = yielded[i]

\* C3 witness: a finished stream with two deltas and a usage event, forwarded
C3_Witness ==
    /\ req.endpoint \in GatewayStreams
    /\ pc = "done"
    /\ Len(yielded) = 3
    /\ yielded[1].type = "content_block_delta"
    /\ yielded[2].type = "content_block_delta"
    /\ yielded[1] # yielded[2]
    /\ yielded[3].type = "message_stop"

\* the rates calculate_cost is to use for a model: the table's entry, or the
\* flagship entry for a model the table does not have
ExpectedOpenAIRates(model) ==
    IF model \in DOMAIN OpenAIPricing THEN OpenAIPricing[model] ELSE OpenAIPricing["gpt-5"]

\* C4: the cost a gateway stream attaches to a usage event is input_tokens x
\* input rate + output_tokens x output rate, with the event's token counts and
\* the rates of the entry the request's model selects; at 3 and 15 USD per
\* million tokens (300 and 1500 units per token), usage (10, 2) costs
\* 0.00006 USD (6000 units).
C4_AttachedCostIsTokensTimesRates ==
    /\ req.endpoint \in GatewayStreams =>
           \A i \in 1..Len(frames) :
               frames[i].type = "message_stop" =>
                   /\ "cost" \in DOMAIN frames[i]
                   /\ frames[i].cost =
                          frames[i].usage.input_tokens * ExpectedOpenAIRates(req.model).input
                          + frames[i].usage.output_tokens * ExpectedOpenAIRates(req.model).output
                   /\ frames[i].usage = yielded[Len(yielded)].usage
    /\ ClaudePricing["claude-3-5-sonnet-20241022"] = [input |-> 300, output |-> 1500]
    /\ ClaudeCalculateCost(10, 2, "claude-3-5-sonnet-20241022") = 6000

\* C4 witness: a forwarded usage event of (10, 2) tokens with its cost,
\* for a model of the table whose two rates differ
C4_Witness ==
    /\ req.endpoint = "chat_stream"
    /\ req.model = "gpt-4o"
    /\ frames # <<>>
    /\ frames[Len(frames)].type = "message_stop"
    /\ frames[Len(frames)].usage = [input_tokens |-> 10, output_tokens |-> 2]
    /\ frames[Len(frames)].cost = 8000

\* C5: for a model of the client's table, calculate_cost(0, 0) is 0, the cost
\* is never negative, and it does not decrease when either token count grows.
C5_CostZeroNonNegativeMonotone ==
    (cost_result.returned /\ cost_args.model \in DOMAIN PricingOf(cost_args.provider)) =>
        /\ cost_result.value >= 0
        /\ (cost_args.input_tokens = 0 /\ cost_args.output_tokens = 0)
               => cost_result.value = 0
        /\ \A i \in cost_args.input_tokens..(MaxTokens + 1),
              o \in cost_args.output_tokens..(MaxTokens + 1) :
               cost_result.value <= CalculateCost(cost_args.provider, i, o, cost_args.model)

\* C5 witness: a call with tokens of both kinds for a model of the table
C5_Witness ==
    /\ cost_result.returned
    /\ cost_args.provider = "openai"
    /\ cost_args.model = "gpt-5-nano"
    /\ cost_args.input_tokens = 3
    /\ cost_args.output_tokens = 1
    /\ cost_result.value = 55

\* C6: for a model the client's table does not have, calculate_cost returns
\* the cost at the rates of the default entry: gpt-5 for OpenAIClient,
\* claude-3-5-sonnet-20241022 for ClaudeClient.
C6_UnknownModelCostsAsDefault ==
    (cost_result # NoCost /\ cost_args.model \notin DOMAIN PricingOf(cost_args.provider)) =>
        LET rates == IF cost_args.provider = "openai"
                     THEN OpenAIPricing["gpt-5"]
                     ELSE ClaudePricing["claude-3-5-sonnet-20241022"]
        IN  /\ cost_result.returned
            /\ cost_result.value = cost_args.input_tokens * rates.input
                                   + cost_args.output_tokens * rates.output

\* C6 witness: OpenAIClient asked for a model only the other table has
C6_Witness ==
    /\ cost_result.returned
    /\ cost_args.provider = "openai"
    /\ cost_args.model = "claude-3-opus-20240229"
    /\ cost_args.input_tokens = 4
    /\ cost_args.output_tokens = 2
    /\ cost_result.value = 2500

\* the keys of a usage event that could tell how its counts were obtained
ProvenanceKeys(event) ==
    (DOMAIN event \ {"type", "usage", "cost"})
    \cup (DOMAIN event.usage \ {"input_tokens", "output_tokens"})

\* C7: every usage event of OpenAIClient.chat_stream, and the frame the
\* gateway forwards for it, carries a marker telling that its counts are
\* estimated.
C7_EstimatedUsageIsMarked ==
    (req.endpoint \in Streaming /\ req.provider = "openai") =>
        /\ \A i \in Positions(yielded, {"message_stop"}) : ProvenanceKeys(yielded[i]) # {}
        /\ \A i \in Positions(frames, {"message_stop"}) : ProvenanceKeys(frames[i]) # {}

\* C8 as stated: the first frame of every streaming call, of the chat stream
\* and of the generate-framework stream, carries the correlation identifier.
C8_FirstFrameOfEveryStreamIsId ==
    (req.endpoint \in GatewayStreams /\ frames # <<>>) =>
        frames[1].type = "conversation_id"

\* C8 amended: a chat stream's first frame is there on every path and carries
\* the correlation identifier, the caller's when a non-empty one is given and
\* a generated one otherwise, and no other frame carries one; the
\* generate-framework stream emits no correlation identifier frame.
C8_ChatStreamFirstFrameIsId ==
    /\ req.endpoint = "chat_stream" =>
           /\ frames # <<>>
           /\ Positions(frames, {"conversation_id"}) = {1}
           /\ IF req.conversation_id # None /\ req.conversation_id # <<>>
              THEN frames[1].conversation_id = req.conversation_id
              ELSE frames[1].conversation_id \in GeneratedIds
    /\ req.endpoint = "generate_framework_stream" =>
           Positions(frames, {"conversation_id"}) = {}

\* C8 witness: a chat stream with a supplied id whose provider call fails at
\* once: the id frame, then the error frame
C8_Witness ==
    /\ req.endpoint = "chat_stream"
    /\ req.conversation_id = <<"c1">>
    /\ Len(frames) = 2
    /\ frames[1] = ConversationFrame(<<"c1">>)
    /\ frames[2].type = "error"

\* C9: when the framework exists and the provider call succeeds, the
\* non-streaming generate-framework operation answers with a success holding
\* framework_id, generated_content, usage, cost and model.
C9_SuccessfulGenerationIsReturned ==
    (req.endpoint = "generate_framework" /\ pc = "done" /\ providerResult = "ok") =>
        /\ response.status = 200
        /\ {"framework_id", "generated_content", "usage", "cost", "model"}
               \subseteq DOMAIN response

\* C10: a generation request whose framework is not found makes no provider
\* call; the non-streaming endpoint answers 404 (not 500), the streaming one
\* emits a single error frame and ends.
C10_MissingFrameworkFailsBeforeProvider ==
    (req.endpoint \in {"generate_framework", "generate_framework_stream"}
         /\ req.framework_id \notin DOMAIN FrameworkFiles) =>
        /\ providerCalls = 0
        /\ ~call.made
        /\ providerResult = "none"
        /\ yielded = <<>>
        /\ pc = "done"
        /\ req.endpoint = "generate_framework" =>
               (response.status = 404 /\ frames = <<>>)
        /\ req.endpoint = "generate_framework_stream" =>
               (Len(frames) = 1 /\ frames[1].type = "error" /\ response = NoResponse)

\* C10 witness: the streaming endpoint asked for a framework that is not on
\* disk, after an earlier request had loaded another one
C10_Witness ==
    /\ req.endpoint = "generate_framework_stream"
    /\ req.framework_id = "missing"
    /\ "rice" \in DOMAIN cache
    /\ Len(frames) = 1
    /\ pc = "done"

\* C11: when the provider call of the non-streaming chat operation fails, the
\* handler gives one response, with a status outside 200..299 and a non-empty
\* message, holding no content, usage or cost; no response exists before the
\* provider answered and nothing is streamed.
C11_ChatFailureIsOneErrorResponse ==
    /\ (req.endpoint = "chat" /\ providerResult = "failed") =>
           /\ pc = "done"
           /\ response.status \notin 200..299
           /\ response.status = 500
           /\ "detail" \in DOMAIN response
           /\ response.detail # <<>>
           /\ DOMAIN response \cap {"content", "usage", "cost"} = {}
           /\ frames = <<>>
    /\ (req.endpoint = "chat" /\ providerResult = "none") => response = NoResponse

\* C11 witness: POST /chat whose provider call raised an authentication error
C11_Witness ==
    /\ req.endpoint = "chat"
    /\ providerResult = "failed"
    /\ providerCalls = 1
    /\ response = [status |-> 500, detail |-> <<"AuthenticationError: invalid x-api-key">>]

\* C12: once the consumer of a stream has disconnected, the gateway pulls no
\* further event from the adapter and forwards no further frame, no provider
\* call is issued, and the provider's native stream is not left open.
C12_DisconnectStopsAndCloses ==
    [][ ~connected' =>
            /\ yielded' = yielded
            /\ frames' = frames
            /\ providerCalls' = providerCalls
            /\ native' # "open" ]_vars

\* whether sequence s is an initial part of sequence t
IsPrefix(s, t) == Len(s) <= Len(t) /\ SubSeq(t, 1, Len(s)) = s

\* C13: a request issues at most one provider call; while it is handled the
\* call count never grows again and the call is never re-issued; a provider
\* failure is surfaced in the failing step as the event right after the
\* deltas delivered, and the event and frame sequences only grow (they are
\* never restarted).
C13_OneProviderCallNeverRestarted ==
    [][ /\ providerCalls' <= 1
        /\ pc # "idle" =>
               /\ providerCalls' <= providerCalls
               /\ pc' # "await_create"
               /\ pc' # "await_chat"
        /\ (pc # "idle" /\ providerResult # "failed" /\ providerResult' = "failed") =>
               /\ providerCalls' = 1
               /\ call' = call
               /\ req.endpoint \in Streaming =>
                      \E e \in Exceptions : yielded' = Append(yielded, ErrorEvent(e))
               /\ req.endpoint \in GatewayStreams =>
                      \E e \in Exceptions : frames' = Append(frames, ErrorEvent(e))
        /\ req' = req => (IsPrefix(yielded, yielded') /\ IsPrefix(frames, frames')) ]_vars

\* C13 witness: a generation stream that failed after two forwarded deltas,
\* with its single provider call
C13_Witness ==
    /\ req.endpoint = "generate_framework_stream"
    /\ providerResult = "failed"
    /\ providerCalls = 1
    /\ Len(frames) = 3
    /\ frames[1].type = "content_block_delta"
    /\ frames[2].type = "content_block_delta"
    /\ frames[3].type = "error"

\* what the consumer of a streaming request has received: the frames of a
\* gateway stream, the events of an adapter called directly
Emitted == IF req.endpoint \in GatewayStreams THEN frames ELSE yielded

\* the stream of the request in progress has ended, a terminal frame last
EndedWithTerminal ==
    /\ req.endpoint \in Streaming
    /\ pc = "done"
    /\ Emitted # <<>>
    /\ Emitted[Len(Emitted)].type \in TerminalTypes

\* C14: when the provider answers every wait and the consumer keeps reading,
\* every streaming request in progress eventually ends with a terminal frame
\* (usage or error) emitted last, and no stream ends without one.
C14_StreamEndsWithTerminalFrame ==
    /\ []((req.endpoint \in Streaming /\ pc = "done") => EndedWithTerminal)
    /\ (req.endpoint \in Streaming /\ pc # "done") ~> EndedWithTerminal

\* C14 witness: a chat stream that ended with the id frame, a delta and the
\* usage frame with its cost
C14_Witness ==
    /\ req.endpoint = "chat_stream"
    /\ pc = "done"
    /\ connected
    /\ Len(frames) = 3
    /\ frames[2].type = "content_block_delta"
    /\ frames[3].type = "message_stop"
    /\ "cost" \in DOMAIN frames[3]

\* the words of the prompt handed to the provider: the system prompt, when
\* one is given, and every conversation message
PromptWords ==
    (IF call.system # None /\ call.system # <<>> THEN WordCount(call.system) ELSE 0)
    + SumWords(call.messages)

RECURSIVE ConcatDeltas(_)
\* the concatenation of the texts of the content deltas among the events
ConcatDeltas(events) ==
    IF events = <<>> THEN <<>>
    ELSE (IF Head(events).type = "content_block_delta"
          THEN Head(events).delta.text ELSE <<>>)
         \o ConcatDeltas(Tail(events))

\* C15: in the usage event of OpenAIClient.chat_stream, input_tokens is 1.3
\* times the words of the whole prompt rounded down, output_tokens is 1.3
\* times the words of the concatenated content deltas rounded down, and both
\* are non-negative integers.
C15_EstimateIsFloorOfWordsTimes13 ==
    (req.endpoint \in Streaming /\ req.provider = "openai") =>
        \A i \in Positions(yielded, {"message_stop"}) :
            /\ yielded[i].usage.input_tokens \in Nat
            /\ yielded[i].usage.output_tokens \in Nat
            /\ yielded[i].usage.input_tokens = (13 * PromptWords) \div 10
            /\ yielded[i].usage.output_tokens =
                   (13 * WordCount(ConcatDeltas(yielded))) \div 10

RECURSIVE Replay(_, _)
\* the locals of a task after the provider's answers, given in order
Replay(task, answers) ==
    IF answers = <<>> THEN task
    ELSE Replay(TaskAnswered(task, Head(answers)), Tail(answers))

\* the request of a task run alone, with a loader nobody else has used,
\* against the provider behaviour and the generated id the task met
SoloRun(task) == Replay(TaskStarted(task.req, task.generated, <<>>), task.answers)

\* for any interleaving of two streaming requests, the frames each request
\* has emitted, and where it stands, are those of its run alone
FramesAsWhenAlone ==
    \A t \in Tasks :
        tasks[t].pc # "idle" =>
            /\ tasks[t].frames = SoloRun(tasks[t]).frames
            /\ tasks[t].pc = SoloRun(tasks[t]).pc

Occurrences(pattern, text) ==
    {i \in 1..(Len(text) - Len(pattern) + 1) :
         SubSeq(text, i, i + Len(pattern) - 1) = pattern}

\* whether pattern occurs in text
Contains(text, pattern) == Occurrences(pattern, text) # {}

\* whether text ends with suffix
EndsWith(text, suffix) ==
    /\ Len(suffix) <= Len(text)
    /\ SubSeq(text, Len(text) - Len(suffix) + 1, Len(text)) = suffix

\* the label that opens a document section
SectionLabel == <<"##", " ", "Document:", " ">>

\* the rule that, between blank lines, separates two sections
SeparatorRule == <<"\n", "\n", "---", "\n", "\n">>

\* the literal standing for an empty document list
PlaceholderText == <<"No", " ", "context", " ", "documents", " ", "provided.">>

\* C17: with zero context documents the user prompt holds the placeholder,
\* once, where the document sections go (between the context header and the
\* task header), and holds no section label and no separator; with one or
\* more documents the placeholder does not appear.
C17_PlaceholderIffNoDocuments ==
    prompt_result.built =>
        IF prompt_args.context_documents = <<>>
        THEN /\ Contains(prompt_result.user_prompt,
                         <<"#", " ", "Context", " ", "Documents", "\n">>
                         \o PlaceholderText
                         \o <<"\n", "\n", "#", " ", "Task", "\n">>)
             /\ Cardinality(Occurrences(PlaceholderText, prompt_result.user_prompt)) = 1
             /\ prompt_result.assembled_context = PlaceholderText
             /\ ~Contains(prompt_result.user_prompt, SectionLabel)
             /\ ~Contains(prompt_result.user_prompt, <<"---">>)
        ELSE /\ ~Contains(prompt_result.user_prompt, PlaceholderText)
             /\ ~Contains(prompt_result.assembled_context, PlaceholderText)
             /\ Contains(prompt_result.user_prompt, SectionLabel)

\* C17 witness: an assembly without documents whose user prompt holds the
\* placeholder
C17_Witness ==
    /\ prompt_result.built
    /\ prompt_args.context_documents = <<>>
    /\ prompt_args.framework_id = "swot"
    /\ Contains(prompt_result.user_prompt, PlaceholderText)

\* the template of the assembly, as it is on disk
Template == FrameworkFiles[prompt_args.framework_id]

\* the guiding questions the template provides, none when it has no such key
TemplateQuestions ==
    IF "guiding_questions" \in DOMAIN Template THEN Template.guiding_questions ELSE <<>>

\* the label that opens the list of guiding questions
QuestionsLabel == <<"##", " ", "Consider", " ", "These", " ", "Questions:">>

RECURSIVE BulletList(_)
\* the questions as bullet lines, each on a new line, in the given order
BulletList(questions) ==
    IF questions = <<>> THEN <<>>
    ELSE <<"\n", "-", " ">> \o Head(questions) \o BulletList(Tail(questions))

\* the instruction expected in the prompt: the supplied one, or for an empty
\* one the default naming the template
ExpectedInstruction ==
    IF prompt_args.user_prompt # <<>> THEN prompt_args.user_prompt
    ELSE <<"Generate", " ", "a", " ">> \o Template.name
         \o <<" ", "based", " ", "on", " ", "the", " ", "context", " ",
              "provided", " ", "above.">>

\* C18: the labeled bullet list of guiding questions is in the user prompt
\* exactly when the supplied instruction has fewer than 50 characters and
\* the template provides questions; it then closes the prompt, right after
\* the instruction, the questions in template order; with 50 characters or
\* more no question is appended even if the template has them.
C18_QuestionsIffShortInstruction ==
    prompt_result.built =>
        LET short == CharLen(prompt_args.user_prompt) < 50
            list == <<"\n", "\n">> \o QuestionsLabel \o BulletList(TemplateQuestions)
        IN  /\ Contains(prompt_result.user_prompt, QuestionsLabel)
                   <=> (short /\ TemplateQuestions # <<>>)
            /\ (short /\ TemplateQuestions # <<>>) =>
                   /\ EndsWith(prompt_result.user_prompt, ExpectedInstruction \o list)
                   /\ Cardinality(Occurrences(QuestionsLabel, prompt_result.user_prompt)) = 1
            /\ ~short =>
                   /\ EndsWith(prompt_result.user_prompt, ExpectedInstruction)
                   /\ \A i \in 1..Len(TemplateQuestions) :
                          ~Contains(prompt_result.user_prompt, TemplateQuestions[i])

\* C18 witness: an instruction of 49 characters for a template with
\* questions, whose prompt ends with the two bullets in order
C18_Witness ==
    /\ prompt_result.built
    /\ prompt_args.framework_id = "rice"
    /\ CharLen(prompt_args.user_prompt) = 49
    /\ EndsWith(prompt_result.user_prompt,
                <<"\n", "-", " ", "Q1?", "\n", "-", " ", "Q2?">>)

\* C19: for an empty supplied instruction the user prompt carries, under the
\* task header, the default instruction naming the template, and the length
\* test is made on the empty instruction: a template with the questions Q1?
\* and Q2? gets both in the prompt; a supplied instruction that is not empty
\* is used unchanged under the task header, and no default is written.
C19_BlankInstructionGetsDefaultAndQuestions ==
    prompt_result.built =>
        LET task == <<"\n", "#", " ", "Task", "\n">>
            default == <<"Generate", " ", "a", " ">> \o Template.name
                       \o <<" ", "based", " ", "on", " ", "the", " ", "context", " ",
                            "provided", " ", "above.">>
        IN  IF prompt_args.user_prompt = <<>>
            THEN /\ Contains(prompt_result.user_prompt, task \o default)
                 /\ TemplateQuestions = << <<"Q1?">>, <<"Q2?">> >> =>
                        /\ Contains(prompt_result.user_prompt, <<"-", " ", "Q1?">>)
                        /\ Contains(prompt_result.user_prompt, <<"-", " ", "Q2?">>)
            ELSE /\ Contains(prompt_result.user_prompt, task \o prompt_args.user_prompt)
                 /\ ~Contains(prompt_result.user_prompt, <<"Generate", " ", "a", " ">>)
                 /\ \/ EndsWith(prompt_result.user_prompt, task \o prompt_args.user_prompt)
                    \/ Contains(prompt_result.user_prompt,
                                task \o prompt_args.user_prompt \o <<"\n", "\n">> \o QuestionsLabel)

\* C19 witness: an empty instruction for the template RICE, which has the
\* questions Q1? and Q2?: the default instruction, then both questions
\* although the default has 52 characters
C19_Witness ==
    /\ prompt_result.built
    /\ prompt_args.framework_id = "rice"
    /\ prompt_args.user_prompt = <<>>
    /\ prompt_args.context_documents # <<>>
    /\ Contains(prompt_result.user_prompt, <<"Generate", " ", "a", " ", "RICE", " ", "based">>)
    /\ Contains(prompt_result.user_prompt, <<"Q2?">>)

\* the line that names the source of a section
SourceLine(url) == <<"\n", "Source:", " ">> \o url

RECURSIVE SectionsInOrder(_, _)
\* whether text is made of one section per document of docs, in that order:
\* label, name, a source line exactly for a url document that has a url,
\* then the content after a blank line, and the separator before the next
SectionsInOrder(text, docs) ==
    IF docs = <<>> THEN text = <<>>
    ELSE LET doc == Head(docs)
             sourced == doc.type = "url" /\ doc.url # None /\ doc.url # <<>>
             head == SectionLabel \o doc.name
             body == <<"\n", "\n">> \o doc.content
             rest(n) == SubSeq(text, n + 1, Len(text))
             startsWith(t, prefix) ==
                 Len(prefix) <= Len(t) /\ SubSeq(t, 1, Len(prefix)) = prefix
             after(section) ==
                 /\ startsWith(text, section)
                 /\ IF Len(docs) = 1 THEN text = section
                    ELSE /\ startsWith(rest(Len(section)), SeparatorRule)
                         /\ SectionsInOrder(rest(Len(section) + Len(SeparatorRule)),
                                            Tail(docs))
         IN  /\ startsWith(text, head)
             /\ IF sourced
                THEN after(head \o SourceLine(doc.url) \o body)
                ELSE /\ ~startsWith(rest(Len(head)), <<"\n", "Source:">>)
                     /\ \/ after(head \o body)
                        \/ after(head \o <<"\n", "(PDF", " ", "document)">> \o body)

\* C20: the assembled context of n >= 1 documents is one labeled section per
\* document, in the supplied order, with the separator between neighbours
\* and nowhere else (n labels, n - 1 separators), and a section has a source
\* line exactly when its document is of type url and has a url.
C20_OneSectionPerDocumentInOrder ==
    (prompt_result.built /\ prompt_args.context_documents # <<>>) =>
        LET docs == prompt_args.context_documents
            text == prompt_result.assembled_context
            sourced == {i \in 1..Len(docs) :
                           docs[i].type = "url" /\ docs[i].url # None /\ docs[i].url # <<>>}
        IN  /\ Cardinality(Occurrences(SectionLabel, text)) = Len(docs)
            /\ Cardinality(Occurrences(SeparatorRule, text)) = Len(docs) - 1
            /\ Cardinality(Occurrences(<<"\n", "Source:", " ">>, text)) = Cardinality(sourced)
            /\ SectionsInOrder(text, docs)
            /\ Contains(prompt_result.user_prompt, text)

\* C20 witness: a pdf document that has a url, then a url document with its
\* url: two sections, one separator, one source line, in the second section
C20_Witness ==
    /\ prompt_result.built
    /\ Len(prompt_args.context_documents) = 2
    /\ prompt_args.context_documents[1].type = "pdf"
    /\ prompt_args.context_documents[2].type = "url"
    /\ prompt_args.context_documents[2].url = <<"http://x">>
    /\ Cardinality(Occurrences(SeparatorRule, prompt_result.assembled_context)) = 1
    /\ EndsWith(prompt_result.assembled_context,
                <<"##", " ", "Document:", " ", "Blog", "\n", "Source:", " ", "http://x",
                  "\n", "\n", "Users", " ", "churn">>)

----------------------------------------------------------------------------
(* ClaudeClient.chat_stream against the native stream of the provider.     *)

\* the request in progress is a direct call of ClaudeClient.chat_stream
ClaudeCall == req.endpoint = "direct" /\ req.provider = "claude"

\* C21: ClaudeClient.chat_stream yields one content_block_delta per increment
\* of the native text_stream, in the native order and with the same text
\* (an empty increment included), before anything else; its usage event
\* comes right after them and carries exactly the input and output token
\* counts of the final message the provider returned, and no cost.
C21_ClaudeStreamMirrorsNative ==
    ClaudeCall =>
        LET deltas == Positions(yielded, {"content_block_delta"})
            stops == Positions(yielded, {"message_stop"})
        IN  /\ deltas = 1..Len(text_stream)
            /\ \A i \in deltas :
                   yielded[i] = [type |-> "content_block_delta",
                                 delta |-> [text |-> text_stream[i]]]
            /\ stops = IF final_message.returned
                       THEN {Len(text_stream) + 1} ELSE {}
            /\ \A i \in stops :
                   /\ DOMAIN yielded[i] = {"type", "usage"}
                   /\ DOMAIN yielded[i].usage = {"input_tokens", "output_tokens"}
                   /\ yielded[i].usage.input_tokens =
                          final_message.usage.input_tokens
                   /\ yielded[i].usage.output_tokens =
                          final_message.usage.output_tokens

\* C21 witness: the native stream delivered "Hi", an empty increment and
\* " there", the provider reported 10 input and 2 output tokens, and the
\* call ended with three deltas and the usage event
C21_Witness ==
    /\ ClaudeCall
    /\ pc = "done"
    /\ text_stream = << <<"Hi">>, <<>>, <<" ", "there">> >>
    /\ final_message.returned
    /\ final_message.usage = [input_tokens |-> 10, output_tokens |-> 2]
    /\ Len(yielded) = 4
    /\ yielded[2].delta.text = <<>>
    /\ yielded[4].type = "message_stop"

----------------------------------------------------------------------------
(* The template held by the loader across generation requests.             *)

\* the endpoints that generate from a framework template
GenerationEndpoints == {"generate_framework", "generate_framework_stream"}

\* C22: no step of the gateway changes a template the loader holds: a
\* template enters the cache as the definition that was loaded, a lookup
\* after any step returns the template held before it, and every generation
\* request builds its system prompt from the template as first loaded (the
\* example output appended once, to the prompt and not to the template).
C22_GenerationLeavesTemplateUnchanged ==
    [][/\ \A id \in DOMAIN cache :
             /\ id \in DOMAIN cache'
             /\ LoadedFramework(cache', id) = cache[id]
       /\ \A id \in DOMAIN cache' \ DOMAIN cache :
             cache'[id] = FrameworkFiles[id]
       /\ (req'.endpoint \in GenerationEndpoints /\ call'.made) =>
             /\ call'.messages[1].content =
                    SystemPrompt(FrameworkFiles[req'.framework_id])
             /\ LoadedFramework(cache', req'.framework_id) =
                    FrameworkFiles[req'.framework_id]]_vars

\* C22 witness: generation requests have loaded two templates, and the one
\* in progress, for the template with an example and questions, has called
\* the provider with the example in its system prompt and got its answer,
\* while the template held by the loader is the one loaded
C22_Witness ==
    /\ req.endpoint \in GenerationEndpoints
    /\ req.framework_id = "rice"
    /\ pc = "done"
    /\ providerResult = "ok"
    /\ DOMAIN cache = {"rice", "swot"}
    /\ call.made
    /\ Contains(call.messages[1].content, cache["rice"].example_output)
    /\ Contains(call.messages[2].content, <<"-", " ", "Q1?">>)
    /\ cache["rice"] = FrameworkFiles["rice"]

----------------------------------------------------------------------------
(* FrameworkLoader.load_framework and its cache.                           *)

\* the step is a call of load_framework
IsLookup == loader_call' # loader_call /\ loader_call'.op = "load_framework"

\* what a call of load_framework does, told from the cache and the files
\* before it: an id in the cache is answered with the cached definition and
\* nothing is read; another id is searched on disk, and is returned and
\* stored when it has a file, or answered None with nothing stored
LookupAnswersFromCacheOrSearches ==
    IsLookup =>
        LET id == loader_call'.framework_id
        IN  IF id \in DOMAIN cache
            THEN /\ loader_call'.found
                 /\ loader_call'.returned = cache[id]
                 /\ ~loader_call'.searched
                 /\ cache' = cache
            ELSE /\ loader_call'.searched
                 /\ IF id \in DOMAIN disk
                    THEN /\ loader_call'.found
                         /\ loader_call'.returned = disk[id]
                         /\ DOMAIN cache' = DOMAIN cache \cup {id}
                         /\ cache'[id] = disk[id]
                    ELSE /\ ~loader_call'.found
                         /\ cache' = cache

\* a lookup of id after the step returns the definition the cache held
\* for id before it, from the cache
StillAnsweredFromCache(id) ==
    /\ LoadFramework(disk', cache', id).found
    /\ LoadFramework(disk', cache', id).returned = cache[id]
    /\ ~LoadFramework(disk', cache', id).searched

\* C23 as stated: a call of load_framework answers from the cache or
\* searches as above, and once a lookup of an id has found and returned a
\* definition, a lookup of that id after any further step returns that same
\* definition from the cache.
C23_FoundDefinitionReturnedEverAfter ==
    [][/\ LookupAnswersFromCacheOrSearches
       /\ (loader_call.op = "load_framework" /\ loader_call.framework_id \in DOMAIN cache)
             => StillAnsweredFromCache(loader_call.framework_id)]_vars

\* C23: a call of load_framework answers from the cache or searches as
\* above, and every step other than a call of get_all_frameworks (a lookup
\* of that id or of another, an edit, an addition or a removal of a
\* definition file) leaves each cached definition to be returned by the
\* next lookup of its id, from the cache; get_all_frameworks reads every
\* file again and replaces the cached definitions by what it read.
C23_CachedDefinitionKeptUntilReloadAll ==
    [][/\ LookupAnswersFromCacheOrSearches
       /\ (loader_call' = loader_call \/ loader_call'.op # "get_all_frameworks")
             => \A id \in DOMAIN cache : StillAnsweredFromCache(id)
       /\ (loader_call' # loader_call /\ loader_call'.op = "get_all_frameworks")
             => \A id \in DOMAIN disk : cache'[id] = disk[id]]_vars

\* C23 witness: "rice" was found and cached, its file was edited afterwards
\* and the file of "swot" removed, and the last lookup of "rice" was answered
\* from the cache, without a search, with the definition as first found
C23_Witness ==
    /\ loader_call.op = "load_framework"
    /\ loader_call.framework_id = "rice"
    /\ ~loader_call.searched
    /\ loader_call.found
    /\ loader_call.returned = FrameworkFiles["rice"]
    /\ DOMAIN disk = {"rice", "okr"}
    /\ disk["rice"] = Edited("rice")
    /\ DOMAIN cache = {"rice"}

=============================================================================
